---- MODULE Spec2Model ----
(***************************************************************************)
(* Model of the genetic ODE regression program: the operator registry      *)
(* (operator.rs), prefix expressions with their stack evaluator, Runge-    *)
(* Kutta fitness and genetic operators (ode.rs, expr.rs), and the          *)
(* population with its evolution loop (population.rs).                     *)
(*                                                                         *)
(* f64 values are modelled in fixed point: the integer v stands for the    *)
(* real v / Scale, so that TIME_STEP = 0.01 is the integer Scale / 100 and *)
(* step / 2.0 and step / 6.0 are exact.  Magnitudes of Mantissa and more   *)
(* are rounded to the nearest value the mantissa holds (ties to even),     *)
(* magnitudes above MaxFloat overflow to the infinities, and NaN is a      *)
(* value of its own, with the IEEE rules for the arithmetic the program    *)
(* uses.                                                                   *)
(***************************************************************************)
EXTENDS Integers, Sequences, FiniteSets, TLC

\* ------------------------------------------------------------------ bounds
MaxLen == 4            \* longest expression the model builds
MaxOtherLen == 2       \* longest expression passed as the argument of crossover
MaxFloat == 3000000    \* largest finite magnitude (stands for f64::MAX)

\* --------------------------------------------------------------- f64 model
Scale == 6 * 100
PosInf == MaxFloat + 1
NegInf == 0 - (MaxFloat + 1)
NaN == MaxFloat + 2

is_nan(a) == a = NaN
IsFinite(a) == a >= 0 - MaxFloat /\ a <= MaxFloat
IsInf(a) == a = PosInf \/ a = NegInf

Abs(a) == IF a < 0 THEN 0 - a ELSE a
Sign(a) == IF a < 0 THEN 0 - 1 ELSE IF a > 0 THEN 1 ELSE 0
\* integer division rounding toward zero
TruncDiv(a, b) == Sign(a) * Sign(b) * (Abs(a) \div Abs(b))
\* the mantissa holds magnitudes below Mantissa exactly; from there on the
\* gap between neighbouring values doubles with every doubling of magnitude
Mantissa == 524288
RECURSIVE Ulp(_, _)
Ulp(a, m) == IF a < m THEN 1 ELSE 2 * Ulp(a, 2 * m)
RoundTo(a, u) ==
    IF 2 * (a % u) > u \/ (2 * (a % u) = u /\ (a \div u) % 2 = 1)
    THEN ((a \div u) + 1) * u
    ELSE (a \div u) * u
\* round to nearest, ties to even
Round(v) == Sign(v) * RoundTo(Abs(v), Ulp(Abs(v), Mantissa))
\* a finite result is rounded; one that left the finite range becomes an
\* infinity
Sat(v) ==
    IF Round(v) > MaxFloat THEN PosInf
    ELSE IF Round(v) < 0 - MaxFloat THEN NegInf
    ELSE Round(v)
SignedInf(s) == IF s < 0 THEN NegInf ELSE PosInf

\* f64 negation, absolute value, addition, subtraction
fneg(a) == IF is_nan(a) THEN NaN ELSE 0 - a
fabs(a) == IF is_nan(a) THEN NaN ELSE Abs(a)
fadd(a, b) ==
    IF is_nan(a) \/ is_nan(b) THEN NaN
    ELSE IF IsInf(a) /\ IsInf(b) THEN (IF a = b THEN a ELSE NaN)
    ELSE IF IsInf(a) THEN a
    ELSE IF IsInf(b) THEN b
    ELSE Sat(a + b)
fsub(a, b) == fadd(a, fneg(b))
\* f64 multiplication: (a/Scale)*(b/Scale) = (a*b/Scale)/Scale
fmul(a, b) ==
    IF is_nan(a) \/ is_nan(b) THEN NaN
    ELSE IF IsInf(a) \/ IsInf(b)
         THEN (IF a = 0 \/ b = 0 THEN NaN ELSE SignedInf(Sign(a) * Sign(b)))
    ELSE IF a = 0 \/ b = 0 THEN 0
    ELSE IF Abs(a) > (MaxFloat * Scale) \div Abs(b) THEN SignedInf(Sign(a) * Sign(b))
    ELSE Sat(TruncDiv(a * b, Scale))
\* f64 division: (a/Scale)/(b/Scale) = (a*Scale/b)/Scale
fdiv(a, b) ==
    IF is_nan(a) \/ is_nan(b) THEN NaN
    ELSE IF IsInf(a) THEN (IF IsInf(b) THEN NaN
                           ELSE SignedInf(Sign(a) * (IF b < 0 THEN 0 - 1 ELSE 1)))
    ELSE IF IsInf(b) THEN 0
    ELSE IF b = 0 THEN (IF a = 0 THEN NaN ELSE SignedInf(Sign(a)))
    ELSE Sat(TruncDiv(a * Scale, b))
\* f64 comparisons: every comparison with NaN is false
fle(a, b) == ~is_nan(a) /\ ~is_nan(b) /\ a <= b
fge(a, b) == ~is_nan(a) /\ ~is_nan(b) /\ a >= b
feq(a, b) == ~is_nan(a) /\ ~is_nan(b) /\ a = b
\* the f64 with integer value n
F(n) == n * Scale

\* ---------------------------------------------------------------- Operator
Time == [kind |-> "Time", f |-> "-", c |-> 0]
Position == [kind |-> "Position", f |-> "-", c |-> 0]
Constant(v) == [kind |-> "Constant", f |-> "-", c |-> v]
Unary(g) == [kind |-> "Unary", f |-> g, c |-> 0]
Binary(g) == [kind |-> "Binary", f |-> g, c |-> 0]

\* the closures the entry point registers
apply_unary(g, a) ==
    CASE g = "SQUARE" -> fmul(a, a)
      [] OTHER -> fneg(a)
apply_binary(g, a, b) ==
    CASE g = "ADD" -> fadd(a, b)
      [] g = "SUB" -> fsub(a, b)
      [] g = "MUL" -> fmul(a, b)
      [] OTHER -> fdiv(a, b)

\* ------------------------------------------------------------------- State
State(time, position) == [time |-> time, position |-> position]

\* -------------------------------------------------------------------- eval
NoPanic == "none"
UnwrapNone == "called Option::unwrap on a None value"
MalformedEmpty == "Malformed expression, no operands remaining in the stack."
MalformedMany == "Malformed expression, more than one operand remaining in the stack."
EvaluationErrors == {UnwrapNone, MalformedEmpty, MalformedMany}

\* the result of a computation that may panic
Ok(v) == [ok |-> TRUE, val |-> v, err |-> NoPanic]
Err(msg) == [ok |-> FALSE, val |-> 0, err |-> msg]

Pop(stack) == SubSeq(stack, 1, Len(stack) - 1)
Top(stack) == stack[Len(stack)]

\* the Binary arm of eval with its operands taken in the other order
eval_binary_swapped(g, stack) ==
    LET arg1 == Top(stack)
        arg2 == Top(Pop(stack))
    IN Append(Pop(Pop(stack)), apply_binary(g, arg2, arg1))

\* the Binary arm of eval: arg1 is popped first
eval_binary(g, stack) ==
    LET arg1 == Top(stack)
        arg2 == Top(Pop(stack))
    IN Append(Pop(Pop(stack)), apply_binary(g, arg1, arg2))

\* one token of the reverse scan, applied to the value stack
RECURSIVE eval_scan(_, _, _, _)
eval_scan(operators, i, stack, state) ==
    IF i = 0 THEN
        (IF Len(stack) = 0 THEN Err(MalformedEmpty)
         ELSE IF Len(stack) = 1 THEN Ok(Top(stack))
         ELSE Err(MalformedMany))
    ELSE LET operator == operators[i] IN
        CASE operator.kind = "Time" ->
                eval_scan(operators, i - 1, Append(stack, state.time), state)
          [] operator.kind = "Position" ->
                eval_scan(operators, i - 1, Append(stack, state.position), state)
          [] operator.kind = "Constant" ->
                eval_scan(operators, i - 1, Append(stack, operator.c), state)
          [] operator.kind = "Unary" ->
                IF Len(stack) < 1 THEN Err(UnwrapNone)
                ELSE eval_scan(operators, i - 1,
                        Append(Pop(stack), apply_unary(operator.f, Top(stack))), state)
          [] OTHER ->
                IF Len(stack) < 2 THEN Err(UnwrapNone)
                ELSE eval_scan(operators, i - 1, eval_binary(operator.f, stack), state)

\* eval without the arm for more than one value left on the stack
eval_many_left(operators, state) ==
    IF eval_scan(operators, Len(operators), <<>>, state).err = MalformedMany
    THEN Ok(0)
    ELSE eval_scan(operators, Len(operators), <<>>, state)

eval(operators, state) == eval_scan(operators, Len(operators), <<>>, state)

\* ------------------------------------------------------------- OperatorMap
\* a token is a sequence of characters
TIME_TOKEN == <<"T", "I", "M", "E">>
POS_TOKEN == <<"P", "O", "S">>

Letters == {"A", "D", "S", "U", "B", "Q", "R", "T", "I", "M", "E", "P", "O"}
Digits == {"0", "1", "2", "3", "4", "5", "6", "7", "8", "9"}
is_numeric(ch) == ch \in Digits
is_alphanumeric(ch) == ch \in Letters \/ ch \in Digits

TokenNotAlnum == "Token invalid, cannot contain non-alphanumeric characters."
TokenNumeric == "Token invalid, cannot begin with numeric characters."

\* OperatorMap::new
OperatorMap_new == (Time :> TIME_TOKEN) @@ (Position :> POS_TOKEN)

\* the check OperatorMap::insert makes: the panic message, or NoPanic
insert_check(token) ==
    IF ~(\A i \in 1..Len(token) : is_alphanumeric(token[i])) THEN TokenNotAlnum
    ELSE IF Len(token) > 0 /\ is_numeric(token[1]) THEN TokenNumeric
    ELSE NoPanic

\* HashMap::insert: the entry of an operator already present is overwritten
hashmap_insert(m, operator, token) ==
    [o \in DOMAIN m \cup {operator} |-> IF o = operator THEN token ELSE m[o]]

\* the map OperatorMap::insert leaves behind
insert(m, operator, token) ==
    IF insert_check(token) # NoPanic THEN m ELSE hashmap_insert(m, operator, token)

\* OperatorMap::get
get(m, operator) == IF operator \in DOMAIN m THEN <<m[operator]>> ELSE <<>>

\* OperatorMap::rand_operator: the key at a random position of the key iterator
rand_operator(m) == DOMAIN m

\* -------------------------------------------------------------------- Expr
\* anonymous constants drawn by generate
AnonConsts == {F(2)}

\* arity_delta with a Unary counted as a terminal
arity_delta_unary_terminal(operator) ==
    CASE operator.kind = "Binary" -> 1
      [] OTHER -> 0 - 1

\* the change of args_needed a token causes
arity_delta(operator) ==
    CASE operator.kind = "Unary" -> 0
      [] operator.kind = "Binary" -> 1
      [] OTHER -> 0 - 1

\* tokens one iteration of the generate loop can push
generate_draws(m) ==
    {Time, Position} \cup {Constant(v) : v \in AnonConsts} \cup rand_operator(m)

\* Expr::generate: every token sequence of at most MaxLen tokens the loop
\* can end with
RECURSIVE generate_loop(_, _, _)
generate_loop(m, operators, args_needed) ==
    IF args_needed = 0 THEN {operators}
    ELSE IF Len(operators) >= MaxLen THEN {}
    ELSE UNION { generate_loop(m, Append(operators, operator),
                               args_needed + arity_delta(operator))
                 : operator \in generate_draws(m) }

generate(m) == generate_loop(m, <<>>, 1)

\* Expr::sub_expr: the forward scan from start; indices are the code's,
\* counted from 0, and the span start..=end is inclusive
RECURSIVE sub_expr_scan(_, _, _, _)
sub_expr_scan(operators, idx, args_needed, end) ==
    IF idx >= Len(operators) THEN end
    ELSE LET needed == args_needed + arity_delta(operators[idx + 1]) IN
         IF needed = 0 THEN end
         ELSE sub_expr_scan(operators, idx + 1, needed, end + 1)

\* sub_expr with end advanced before the test that ends the scan
sub_expr_overrun(operators, start) ==
    [start |-> start, end |-> sub_expr_scan(operators, start, 1, start) + 1]

sub_expr(operators, start) ==
    [start |-> start, end |-> sub_expr_scan(operators, start, 1, start)]

\* the values of rand::random::<usize>() % len
sub_expr_starts(operators) == 0 .. (Len(operators) - 1)

\* slices of a Vec, with the code's indices
slice_to(v, e) == SubSeq(v, 1, e)
slice_from(v, s) == SubSeq(v, s + 1, Len(v))
slice_incl(v, s, e) == SubSeq(v, s + 1, e + 1)

SliceOutOfRange == "range end index out of range for slice"

\* crossover that splices in the whole of other
crossover_whole_other(self, other, start_self, start_other) ==
    LET sub_self == sub_expr(self, start_self)
    IN [ok |-> TRUE,
        operators |-> slice_to(self, sub_self.start) \o other
                      \o slice_from(self, sub_self.end + 1),
        err |-> NoPanic]

\* crossover that keeps the last token of the replaced span
crossover_keep_end(self, other, start_self, start_other) ==
    LET sub_self == sub_expr(self, start_self)
        sub_other == sub_expr(other, start_other)
    IN [ok |-> TRUE,
        operators |-> slice_to(self, sub_self.start)
                      \o slice_incl(other, sub_other.start, sub_other.end)
                      \o slice_from(self, sub_self.end),
        err |-> NoPanic]

\* Expr::crossover with the two random starts made explicit
crossover(self, other, start_self, start_other) ==
    LET sub_self == sub_expr(self, start_self)
        sub_other == sub_expr(other, start_other)
    IN IF sub_other.end >= Len(other) \/ sub_self.end + 1 > Len(self)
       THEN [ok |-> FALSE, operators |-> <<>>, err |-> SliceOutOfRange]
       ELSE [ok |-> TRUE,
             operators |-> slice_to(self, sub_self.start)
                           \o slice_incl(other, sub_other.start, sub_other.end)
                           \o slice_from(self, sub_self.end + 1),
             err |-> NoPanic]

\* Expr::mutate with its random bool and start made explicit
mutate(self, rand, start_self) ==
    LET var == IF rand THEN Time ELSE Position
    IN crossover(self, <<var>>, start_self, 0)

\* ------------------------------------------------------- next and fitness
TIME_STEP == Scale \div 100

\* the closure rk45_increment of Expr::next
rk45_increment(operators, state, dt, dp) ==
    eval(operators, State(fadd(state.time, dt), fadd(state.position, dp)))

\* the State Expr::next returns from the four increments
new_state(state, step, k1, k2, k3, k4) ==
    State(fadd(state.time, step),
          fadd(state.position,
               fmul(fdiv(step, F(6)),
                    fadd(fadd(fadd(k1, fmul(F(2), k2)), fmul(F(2), k3)), k4))))

\* Expr::next after k3, after k2 and after k1: an eval that panics ends the
\* step
next_k4(operators, state, step, k1, k2, k3, k4) ==
    IF ~k4.ok THEN Err(k4.err)
    ELSE Ok(new_state(state, step, k1.val, k2.val, k3.val, k4.val))

next_k3(operators, state, step, k1, k2, k3) ==
    IF ~k3.ok THEN Err(k3.err)
    ELSE next_k4(operators, state, step, k1, k2, k3,
                 rk45_increment(operators, state, step, fmul(step, k3.val)))

next_k2(operators, state, step, k1, k2) ==
    IF ~k2.ok THEN Err(k2.err)
    ELSE next_k3(operators, state, step, k1, k2,
                 rk45_increment(operators, state, fdiv(step, F(2)),
                                fdiv(fmul(step, k2.val), F(2))))

next_k1(operators, state, step, k1) ==
    IF ~k1.ok THEN Err(k1.err)
    ELSE next_k2(operators, state, step, k1,
                 rk45_increment(operators, state, fdiv(step, F(2)),
                                fdiv(fmul(step, k1.val), F(2))))

\* Expr::next: one Runge-Kutta step
next(operators, state, step) ==
    next_k1(operators, state, step, rk45_increment(operators, state, 0, 0))

\* the shoelace area without its absolute value
fitness_area_signed(curr_state, prev_state, next_state) ==
    fdiv(fsub(fmul(fsub(curr_state.time, next_state.time),
                   fsub(prev_state.position, curr_state.position)),
              fmul(fsub(curr_state.time, prev_state.time),
                   fsub(next_state.position, curr_state.position))),
         F(2))

\* the shoelace area of one iteration
fitness_area(curr_state, prev_state, next_state) ==
    fdiv(fabs(fsub(fmul(fsub(curr_state.time, next_state.time),
                        fsub(prev_state.position, curr_state.position)),
                   fmul(fsub(curr_state.time, prev_state.time),
                        fsub(next_state.position, curr_state.position)))),
         F(2))

\* the while loop of Expr::fitness; prev and next are positions of the
\* iterator (next > Len(states) is None)
RECURSIVE fitness_loop(_, _, _, _, _, _, _)

\* the rest of one iteration, once the area is added and the step is taken
fitness_advance(operators, states, step, prev, nxt, stepped, fitness) ==
    IF ~stepped.ok THEN Err(stepped.err)
    ELSE IF fge(stepped.val.time, states[nxt].time)
         THEN fitness_loop(operators, states, step, nxt, nxt + 1,
                           stepped.val, fitness)
         ELSE fitness_loop(operators, states, step, prev, nxt,
                           stepped.val, fitness)

fitness_loop(operators, states, step, prev, nxt, curr_state, fitness) ==
    IF nxt > Len(states) THEN Ok(fitness)
    ELSE fitness_advance(operators, states, step, prev, nxt,
                         next(operators, curr_state, step),
                         fadd(fitness,
                              fitness_area(curr_state, states[prev], states[nxt])))

\* Expr::fitness
fitness(operators, states, step) ==
    IF Len(states) = 0 THEN Err(UnwrapNone)
    ELSE fitness_loop(operators, states, step, 1, 2,
                      State(states[1].time, states[1].position), 0)

\* ------------------------------------------------- Individual, Population
DataUnequal == "Time and position data must be of equal lengths."
DataEmpty == "Time and position data cannot be emtpy."
EvolveEmpty == "Cannot evolve population with no individuals."

Individual(fit, operators) == [fitness |-> fit, expr |-> operators]

\* cmp with the two NaN arms exchanged
cmp_nan_first(a, b) ==
    IF is_nan(a.fitness) /\ is_nan(b.fitness) THEN "Equal"
    ELSE IF is_nan(b.fitness) THEN "Greater"
    ELSE IF is_nan(a.fitness) THEN "Less"
    ELSE IF a.fitness < b.fitness THEN "Less"
    ELSE IF a.fitness > b.fitness THEN "Greater"
    ELSE "Equal"

\* Ord::cmp for Individual
cmp(a, b) ==
    IF is_nan(a.fitness) /\ is_nan(b.fitness) THEN "Equal"
    ELSE IF is_nan(b.fitness) THEN "Less"
    ELSE IF is_nan(a.fitness) THEN "Greater"
    ELSE IF a.fitness < b.fitness THEN "Less"
    ELSE IF a.fitness > b.fitness THEN "Greater"
    ELSE "Equal"

\* PartialEq::eq for Individual
eq(a, b) == feq(a.fitness, b.fitness)

\* Vec::sort: a stable sort by cmp (insertion of each element after the
\* elements that are not greater)
RECURSIVE sort_insert(_, _)
sort_insert(sorted, x) ==
    IF Len(sorted) = 0 THEN <<x>>
    ELSE IF cmp(x, sorted[Len(sorted)]) = "Less"
         THEN Append(sort_insert(SubSeq(sorted, 1, Len(sorted) - 1), x),
                     sorted[Len(sorted)])
         ELSE Append(sorted, x)

RECURSIVE sort(_)
sort(v) ==
    IF Len(v) = 0 THEN <<>>
    ELSE sort_insert(sort(SubSeq(v, 1, Len(v) - 1)), v[Len(v)])

\* new_check without the test for empty data
new_check_lengths_only(ts, ps) ==
    IF Len(ts) # Len(ps) THEN DataUnequal ELSE NoPanic

\* the check Population::new makes: the panic message, or NoPanic
new_check(ts, ps) ==
    IF Len(ts) # Len(ps) THEN DataUnequal
    ELSE IF Len(ts) = 0 THEN DataEmpty
    ELSE NoPanic

\* the check Expr::fitness of expr.rs makes before it integrates
fitness_check(time_data, position_data) ==
    IF Len(time_data) # Len(position_data) THEN DataUnequal
    ELSE IF Len(time_data) = 0 THEN DataEmpty
    ELSE NoPanic

\* diff_eq::fitness as Population calls it: the paired samples, integrated
\* with the given step
zip_states(ts, ps) == [i \in 1..Len(ts) |-> State(ts[i], ps[i])]
diff_eq_fitness(operators, ts, ps, step) == fitness(operators, zip_states(ts, ps), step)

\* Population::closest
RECURSIVE closest_loop(_, _, _, _)
closest_loop(pop, num, prev, nxt) ==
    IF nxt > Len(pop) THEN pop[prev]
    ELSE IF fle(pop[prev].fitness, num) /\ fge(pop[nxt].fitness, num)
         THEN pop[prev]
         ELSE closest_loop(pop, num, nxt, nxt + 1)

closest(pop, num) == closest_loop(pop, num, 1, 2)

\* evolve_check that lets an empty population through
evolve_check_skipped(size) == NoPanic

\* the check Population::evolve makes first: the panic message, or NoPanic
evolve_check(size) == IF size = 0 THEN EvolveEmpty ELSE NoPanic

\* the number of Individuals evolve keeps unchanged
num_unchanged(size) == size \div 10

\* unchanged taking the Individuals from the other end of the sorted population
unchanged_worst(sorted) ==
    SubSeq(sorted, Len(sorted) - num_unchanged(Len(sorted)) + 1, Len(sorted))

\* the Individuals evolve copies into the new population, out of the sorted one
unchanged(sorted) == SubSeq(sorted, 1, num_unchanged(Len(sorted)))

\* =================================================================== state
VARIABLES
    map,          \* OperatorMap.map: Operator -> token
    expr_self,    \* an Expr a caller holds (the receiver of the genetic operators)
    expr_other,   \* a second Expr a caller holds (their argument)
    args_needed,  \* generate's counter while it builds expr_self; 0 outside generate
    last,         \* the last Expr operation, its random draws and its result
    constructed,  \* whether Population::new has returned a Population
    times,        \* Population.times
    positions,    \* Population.positions
    population,   \* Population.population
    generation,   \* Population.generation
    fit,          \* the locals of a call of Expr::fitness that has not returned
    panic         \* the message of the panic that ended the program, or NoPanic

vars == <<map, expr_self, expr_other, args_needed, last, constructed, times,
          positions, population, generation, fit, panic>>

pop_vars == <<constructed, times, positions, population, generation>>

\* tokens the entry point registers
ADD_TOKEN == <<"A", "D", "D">>
SUB_TOKEN == <<"S", "U", "B">>
DIV_TOKEN == <<"D", "I", "U">>
SQUARE_TOKEN == <<"S", "Q", "U", "A", "R", "E">>
PI_TOKEN == <<"P", "I">>

NoSpan == [start |-> 0, end |-> 0]
\* no call of fitness is under way
NoFit == [active |-> FALSE, states |-> <<>>, step |-> 0, prev |-> 0, next |-> 0,
          curr_state |-> [time |-> 0, position |-> 0], fitness |-> 0, area |-> 0]
NoState == State(0, 0)
NoLast == [op |-> "none", self |-> <<>>, other |-> <<>>, sub_self |-> NoSpan,
           sub_other |-> NoSpan, state |-> NoState, value |-> 0,
           operator |-> Time, token |-> <<>>, times |-> <<>>, positions |-> <<>>,
           description |-> <<>>, parsed |-> <<>>,
           num |-> 0, individual |-> [fitness |-> 0, expr |-> <<>>]]

\* ========================================================== Expr operations
\* registries a caller has built before any generation
ExprRegistries ==
    { OperatorMap_new,
      insert(OperatorMap_new, Constant(F(3)), PI_TOKEN),
      insert(insert(OperatorMap_new, Unary("SQUARE"), SQUARE_TOKEN),
             Binary("ADD"), ADD_TOKEN) }

EvalRegistries ==
    { insert(insert(OperatorMap_new, Unary("SQUARE"), SQUARE_TOKEN),
             Binary("SUB"), SUB_TOKEN),
      insert(insert(OperatorMap_new, Binary("DIV"), DIV_TOKEN),
             Binary("SUB"), SUB_TOKEN) }

\* bound values eval is called with
EvalTimes == {F(3), F(5)}
EvalPositions == {F(0), F(2)}

InitPopulationNone ==
    /\ constructed = FALSE
    /\ times = <<>>
    /\ positions = <<>>
    /\ population = <<>>
    /\ generation = 0

InitExprs ==
    /\ fit = NoFit
    /\ expr_self \in generate(map)
    /\ expr_other \in {e \in generate(map) : Len(e) <= MaxOtherLen}
    /\ args_needed = 0
    /\ last = NoLast
    /\ InitPopulationNone
    /\ panic = NoPanic

Init ==
    /\ map \in ExprRegistries
    /\ InitExprs

InitEval ==
    /\ map \in EvalRegistries
    /\ InitExprs

\* one iteration of the loop of Expr::generate, building expr_self; the
\* first iteration starts from the empty vector with args_needed = 1
Generate ==
    /\ panic = NoPanic
    /\ \E operator \in generate_draws(map) :
          LET operators == IF args_needed = 0 THEN <<>> ELSE expr_self
              needed == (IF args_needed = 0 THEN 1 ELSE args_needed)
                        + arity_delta(operator)
          IN /\ Len(operators) + 1 + needed <= MaxLen
             /\ expr_self' = Append(operators, operator)
             /\ args_needed' = needed
    /\ last' = [NoLast EXCEPT !.op = "generate"]
    /\ UNCHANGED <<fit, map, expr_other, pop_vars, panic>>

\* sub_expr: the span of a random start, kept as a standalone Expr
SubExpr ==
    /\ panic = NoPanic
    /\ args_needed = 0
    /\ \E start \in sub_expr_starts(expr_self) :
          LET span == sub_expr(expr_self, start) IN
          IF span.end >= Len(expr_self)
          THEN /\ panic' = SliceOutOfRange
               /\ UNCHANGED <<expr_other, last>>
          ELSE /\ span.end - span.start + 1 <= MaxOtherLen
               /\ expr_other' = slice_incl(expr_self, span.start, span.end)
               /\ last' = [NoLast EXCEPT !.op = "sub_expr", !.self = expr_self,
                                         !.sub_self = span]
               /\ panic' = NoPanic
    /\ UNCHANGED <<fit, map, expr_self, args_needed, pop_vars>>

\* Expr::crossover
Crossover ==
    /\ panic = NoPanic
    /\ args_needed = 0
    /\ \E start_self \in sub_expr_starts(expr_self),
          start_other \in sub_expr_starts(expr_other) :
          LET r == crossover(expr_self, expr_other, start_self, start_other) IN
          IF ~r.ok
          THEN /\ panic' = r.err
               /\ UNCHANGED <<expr_self, last>>
          ELSE /\ Len(r.operators) <= MaxLen
               /\ expr_self' = r.operators
               /\ last' = [NoLast EXCEPT !.op = "crossover", !.self = expr_self,
                              !.other = expr_other,
                              !.sub_self = sub_expr(expr_self, start_self),
                              !.sub_other = sub_expr(expr_other, start_other)]
               /\ panic' = NoPanic
    /\ UNCHANGED <<fit, map, expr_other, args_needed, pop_vars>>

\* Expr::mutate
Mutate ==
    /\ panic = NoPanic
    /\ args_needed = 0
    /\ \E rand \in BOOLEAN, start_self \in sub_expr_starts(expr_self) :
          LET r == mutate(expr_self, rand, start_self)
              var == <<IF rand THEN Time ELSE Position>>
          IN IF ~r.ok
             THEN /\ panic' = r.err
                  /\ UNCHANGED <<expr_self, last>>
             ELSE /\ expr_self' = r.operators
                  /\ last' = [NoLast EXCEPT !.op = "mutate", !.self = expr_self,
                                 !.other = var,
                                 !.sub_self = sub_expr(expr_self, start_self),
                                 !.sub_other = sub_expr(var, 0)]
                  /\ panic' = NoPanic
    /\ UNCHANGED <<fit, map, expr_other, args_needed, pop_vars>>

\* Expr::eval
Eval ==
    /\ panic = NoPanic
    /\ args_needed = 0
    /\ \E t \in EvalTimes, x \in EvalPositions :
          LET e == expr_self
              r == eval(e, State(t, x)) IN
          /\ panic' = r.err
          /\ last' = IF r.ok
                     THEN [NoLast EXCEPT !.op = "eval", !.self = e,
                                         !.state = State(t, x), !.value = r.val]
                     ELSE last
    /\ UNCHANGED <<fit, map, expr_self, expr_other, args_needed, pop_vars>>

Next == Generate \/ SubExpr \/ Crossover \/ Mutate \/ Eval

Spec == Init /\ [][Next]_vars

NextEval == Generate \/ Eval

SpecEval == InitEval /\ [][NextEval]_vars

\* ====================================================== OperatorMap operations
InsertOperators == {Position, Unary("SQUARE"), Binary("ADD")}
InsertTokens ==
    { <<>>, <<"A">>, <<"2">>, <<"A", "2">>, <<"2", "A">>, <<"A", " ">>, <<"_">>,
      TIME_TOKEN, POS_TOKEN, ADD_TOKEN }

InitNoExprs ==
    /\ expr_self = <<>>
    /\ expr_other = <<>>
    /\ args_needed = 0
    /\ last = NoLast

InitReg ==
    /\ fit = NoFit
    /\ map = OperatorMap_new
    /\ InitNoExprs
    /\ InitPopulationNone
    /\ panic = NoPanic

\* OperatorMap::insert
Insert ==
    /\ panic = NoPanic
    /\ \E operator \in InsertOperators, token \in InsertTokens :
          /\ panic' = insert_check(token)
          /\ map' = insert(map, operator, token)
          /\ last' = [NoLast EXCEPT !.op = "insert", !.operator = operator,
                                    !.token = token]
    /\ UNCHANGED <<fit, expr_self, expr_other, args_needed, pop_vars>>

NextReg == Insert

SpecReg == InitReg /\ [][NextReg]_vars

\* ======================================================= Population operations
MaxPop == 3            \* largest population grown from nothing
MaxGen == 1            \* generations evolved

\* sample sequences handed to Population::new and to fitness
DataSeqs == { <<>>, <<F(0)>>, <<F(0), 2 * TIME_STEP>>, <<F(40), F(40)>> }

\* values drawn from the exponential distribution
RandSamples == {1, F(1)}

InitPop ==
    /\ fit = NoFit
    /\ map = OperatorMap_new
    /\ InitNoExprs
    /\ InitPopulationNone
    /\ panic = NoPanic

\* Population::new
New ==
    /\ panic = NoPanic
    /\ ~constructed
    /\ \E ts \in DataSeqs, ps \in DataSeqs :
          /\ panic' = new_check(ts, ps)
          /\ last' = [NoLast EXCEPT !.op = "new", !.times = ts, !.positions = ps]
          /\ IF new_check(ts, ps) # NoPanic
             THEN UNCHANGED pop_vars
             ELSE /\ constructed' = TRUE
                  /\ times' = ts
                  /\ positions' = ps
                  /\ population' = <<>>
                  /\ generation' = 0
    /\ UNCHANGED <<fit, map, expr_self, expr_other, args_needed>>

\* the Individual grow and evolve build for an Expr: its fitness, or the panic
scored(operators, ts, ps) ==
    LET r == diff_eq_fitness(operators, ts, ps, TIME_STEP)
    IN [ok |-> r.ok, ind |-> Individual(r.val, operators), err |-> r.err]

\* the population and the panic grow leaves for the Individuals it built
grow_push(pop, n, inds) ==
    IF \E i \in 1..n : ~inds[i].ok
    THEN [population |-> pop, panic |-> inds[CHOOSE i \in 1..n : ~inds[i].ok].err]
    ELSE [population |-> pop \o [i \in 1..n |-> inds[i].ind], panic |-> NoPanic]

\* Population::grow
Grow ==
    /\ panic = NoPanic
    /\ constructed
    /\ \E n \in 1..(MaxPop - Len(population)) :
       \E exprs \in [1..n -> generate(map)] :
          /\ population' = grow_push(population, n,
                              [i \in 1..n |-> scored(exprs[i], times, positions)]
                           ).population
          /\ panic' = grow_push(population, n,
                         [i \in 1..n |-> scored(exprs[i], times, positions)]).panic
          /\ last' = [NoLast EXCEPT !.op = "grow", !.num = n]
    /\ UNCHANGED <<fit, map, expr_self, expr_other, args_needed, constructed, times,
                   positions, generation>>

\* Population::best_fit
BestFit ==
    /\ panic = NoPanic
    /\ constructed
    /\ population' = sort(population)
    /\ panic' = IF Len(population) = 0 THEN UnwrapNone ELSE NoPanic
    /\ last' = [NoLast EXCEPT !.op = "best_fit"]
    /\ UNCHANGED <<fit, map, expr_self, expr_other, args_needed, constructed, times,
                   positions, generation>>

\* the Expr one iteration of the loop of evolve can build: the draws rand1
\* and rand2 select the parents, then a random span of the second parent is
\* crossed into the first
evolve_crossed(sorted) ==
    UNION { LET ind1 == closest(sorted, rand1)
                ind2 == closest(sorted, rand2)
            IN UNION { LET span == sub_expr(ind2.expr, s2)
                           sub == slice_incl(ind2.expr, span.start, span.end)
                       IN { crossover(ind1.expr, sub, s1, s3)
                            : s1 \in sub_expr_starts(ind1.expr),
                              s3 \in sub_expr_starts(sub) }
                       : s2 \in sub_expr_starts(ind2.expr) }
            : rand1 \in RandSamples, rand2 \in RandSamples }

\* the Individuals one iteration can push, or the panic that ends it
evolve_offspring(sorted, ts, ps) ==
    { IF r.ok THEN scored(r.operators, ts, ps)
      ELSE [ok |-> FALSE, ind |-> Individual(0, <<>>), err |-> r.err]
      : r \in { c \in evolve_crossed(sorted) : ~c.ok \/ Len(c.operators) <= MaxLen } }

\* evolve_fill with a loop that ends one iteration early
evolve_fill_short(size, sorted, new_population, offspring) ==
    \E inds \in [1..(size - Len(new_population) - 1) -> offspring] :
       IF \E i \in DOMAIN inds : ~inds[i].ok
       THEN /\ panic' = inds[CHOOSE i \in DOMAIN inds : ~inds[i].ok].err
            /\ population' = sorted
            /\ UNCHANGED generation
       ELSE /\ population' = new_population \o [i \in DOMAIN inds |-> inds[i].ind]
            /\ generation' = generation + 1
            /\ panic' = NoPanic

\* the loop of evolve that fills the new population, and the swap that ends
\* it: a panic in the loop leaves the sorted population behind
evolve_fill(size, sorted, new_population, offspring) ==
    \E inds \in [1..(size - Len(new_population)) -> offspring] :
       IF \E i \in DOMAIN inds : ~inds[i].ok
       THEN /\ panic' = inds[CHOOSE i \in DOMAIN inds : ~inds[i].ok].err
            /\ population' = sorted
            /\ UNCHANGED generation
       ELSE /\ population' = new_population \o [i \in DOMAIN inds |-> inds[i].ind]
            /\ generation' = generation + 1
            /\ panic' = NoPanic

\* Population::evolve
Evolve ==
    /\ panic = NoPanic
    /\ constructed
    /\ generation < MaxGen
    /\ last' = [NoLast EXCEPT !.op = "evolve"]
    /\ IF evolve_check(Len(population)) # NoPanic
       THEN /\ panic' = evolve_check(Len(population))
            /\ UNCHANGED <<population, generation>>
       ELSE IF Len(population) = 0
       THEN /\ panic' = UnwrapNone
            /\ UNCHANGED <<population, generation>>
       ELSE evolve_fill(Len(population), sort(population),
                        unchanged(sort(population)),
                        evolve_offspring(sort(population), times, positions))
    /\ UNCHANGED <<fit, map, expr_self, expr_other, args_needed, constructed, times,
                   positions>>

NextPop == New \/ Grow \/ BestFit \/ Evolve

SpecPop == InitPop /\ [][NextPop]_vars

\* a population of ElitePopSize Individuals as grow leaves it, for the data
\* below, whose draws were the two variables
ElitePopSize == 10
EliteTimes == <<F(0), 2 * TIME_STEP>>
ElitePositions == <<F(40), F(40)>>
EliteGrown == { scored(e, EliteTimes, ElitePositions).ind : e \in {<<Time>>, <<Position>>} }

InitElite ==
    /\ fit = NoFit
    /\ map = OperatorMap_new
    /\ InitNoExprs
    /\ constructed = TRUE
    /\ times = EliteTimes
    /\ positions = ElitePositions
    /\ population \in [1..ElitePopSize -> EliteGrown]
    /\ generation = 0
    /\ panic = NoPanic

NextElite == BestFit \/ Evolve

SpecElite == InitElite /\ [][NextElite]_vars

\* populations as grow leaves them over a registry that holds DIV, whose
\* fitness may be NaN
MaxSortLen == 3
SortExprs ==
    { <<Time>>, <<Position>>, <<Constant(F(2))>>,
      <<Binary("DIV"), Time, Time>>, <<Binary("DIV"), Position, Position>>,
      <<Binary("DIV"), Constant(F(2)), Time>> }
SortPositions == <<F(0), F(40)>>
SortGrown == { scored(e, EliteTimes, SortPositions).ind : e \in SortExprs }

InitSort ==
    /\ fit = NoFit
    /\ map = insert(OperatorMap_new, Binary("DIV"), DIV_TOKEN)
    /\ InitNoExprs
    /\ constructed = TRUE
    /\ times = EliteTimes
    /\ positions = SortPositions
    /\ \E n \in 1..MaxSortLen : population \in [1..n -> SortGrown]
    /\ generation = 0
    /\ panic = NoPanic

NextSort == BestFit

SpecSort == InitSort /\ [][NextSort]_vars

\* ================================================== eval of any token sequence
\* tokens a description can name, and the vectors of at most MaxLen of them
\* that from_description, which checks no arity, can build
AnyOperators ==
    {Time, Position, Constant(F(2)), Unary("SQUARE"), Binary("SUB")}
AnyExprs == UNION { [1..n -> AnyOperators] : n \in 1..MaxLen }

InitAny ==
    /\ fit = NoFit
    /\ map = insert(insert(OperatorMap_new, Unary("SQUARE"), SQUARE_TOKEN),
                    Binary("SUB"), SUB_TOKEN)
    /\ expr_self \in AnyExprs
    /\ expr_other = <<>>
    /\ args_needed = 0
    /\ last = NoLast
    /\ InitPopulationNone
    /\ panic = NoPanic

NextAny == Eval

SpecAny == InitAny /\ [][NextAny]_vars

\* ================================================================ selection
\* values evolve can draw for closest
SelectSamples == {1, 119, 120, F(1)}

\* a call of closest by evolve, on the population best_fit has sorted: the
\* value drawn is passed as it is; min_fitness is kept but takes no part
Closest ==
    /\ panic = NoPanic
    /\ last.op \in {"best_fit", "closest"}
    /\ \E rand1 \in SelectSamples :
          last' = [NoLast EXCEPT !.op = "closest",
                                 !.value = population[1].fitness,
                                 !.num = rand1,
                                 !.individual = closest(population, rand1)]
    /\ UNCHANGED <<fit, map, expr_self, expr_other, args_needed, pop_vars, panic>>

NextSelect == BestFit \/ Closest

SpecSelect == InitSort /\ [][NextSelect]_vars

\* ========================================================== fitness operations
\* registries a caller has built before any generation
FitRegistries ==
    { OperatorMap_new,
      insert(OperatorMap_new, Binary("DIV"), DIV_TOKEN),
      insert(OperatorMap_new, Unary("SQUARE"), SQUARE_TOKEN) }

\* vectors of State handed to fitness
StateSeqs == { zip_states(ts, ps) : ts \in {d \in DataSeqs : Len(d) <= 1}, ps \in {<<F(40)>>} }
                \cup { zip_states(ts, ps) : ts \in {d \in DataSeqs : Len(d) = 2},
                                     ps \in {d \in DataSeqs : Len(d) = 2} }

InitData ==
    /\ fit = NoFit
    /\ map \in FitRegistries
    /\ expr_self \in generate(map)
    /\ expr_other = <<>>
    /\ args_needed = 0
    /\ last = NoLast
    /\ InitPopulationNone
    /\ panic = NoPanic

\* fitness called with time and position data: the checks of Expr::fitness
\* of expr.rs, then the integration
FitnessData ==
    /\ panic = NoPanic
    /\ args_needed = 0
    /\ \E ts \in DataSeqs, ps \in DataSeqs :
          LET msg == fitness_check(ts, ps)
              r == IF msg # NoPanic THEN Err(msg)
                   ELSE diff_eq_fitness(expr_self, ts, ps, TIME_STEP)
          IN /\ panic' = r.err
             /\ last' = [NoLast EXCEPT !.op = "fitness_data", !.self = expr_self,
                            !.times = ts, !.positions = ps, !.value = r.val]
    /\ UNCHANGED <<fit, map, expr_self, expr_other, args_needed, pop_vars>>

\* Expr::fitness of ode.rs, called with a vector of State
FitnessStates ==
    /\ panic = NoPanic
    /\ args_needed = 0
    /\ \E states \in StateSeqs :
          LET r == fitness(expr_self, states, TIME_STEP)
          IN /\ panic' = r.err
             /\ last' = [NoLast EXCEPT !.op = "fitness_states", !.self = expr_self,
                            !.times = [i \in 1..Len(states) |-> states[i].time],
                            !.positions = [i \in 1..Len(states) |-> states[i].position],
                            !.value = r.val]
    /\ UNCHANGED <<fit, map, expr_self, expr_other, args_needed, pop_vars>>

NextData == Generate \/ FitnessData \/ FitnessStates \/ New

SpecData == InitData /\ [][NextData]_vars

\* ============================================================ fitness loop
\* Expr::fitness taken one iteration of its while loop at a time: fit holds
\* its locals (prev and next are positions of the iterator; next beyond the
\* last state is None)
BigTime == Mantissa        \* a time whose neighbouring values are 2 apart

\* vectors of State handed to fitness, and the steps
LoopStateSeqs ==
    { <<>>,
      <<State(F(0), F(40))>>,
      <<State(F(0), F(40)), State(2 * TIME_STEP, F(40))>>,
      <<State(F(0), F(0)), State(TIME_STEP, F(40)), State(3 * TIME_STEP, F(0))>>,
      <<State(BigTime, F(0)), State(BigTime + Scale, F(0))>> }
LoopSteps == {TIME_STEP, 1}

InitLoop ==
    /\ fit = NoFit
    /\ map \in FitRegistries
    /\ expr_self \in generate(map)
    /\ expr_other = <<>>
    /\ args_needed = 0
    /\ last = NoLast
    /\ InitPopulationNone
    /\ panic = NoPanic

\* the locals as the statements before the loop leave them
fitness_locals(states, step) ==
    [active |-> TRUE, states |-> states, step |-> step, prev |-> 1, next |-> 2,
     curr_state |-> State(states[1].time, states[1].position),
     fitness |-> 0, area |-> 0]

\* fitness up to its loop
FitnessBegin ==
    /\ panic = NoPanic
    /\ args_needed = 0
    /\ ~fit.active
    /\ \E states \in LoopStateSeqs, step \in LoopSteps :
          IF Len(states) = 0
          THEN panic' = UnwrapNone /\ fit' = fit
          ELSE panic' = NoPanic /\ fit' = fitness_locals(states, step)
    /\ last' = [NoLast EXCEPT !.op = "fitness_begin", !.self = expr_self]
    /\ UNCHANGED <<map, expr_self, expr_other, args_needed, pop_vars>>

\* the locals after one iteration: the area is added, the step taken, and
\* the bounds move on when the time has reached the next state
fitness_iter(f, stepped, area) ==
    [f EXCEPT !.fitness = fadd(f.fitness, area),
              !.area = area,
              !.curr_state = stepped.val,
              !.prev = IF fge(stepped.val.time, f.states[f.next].time)
                       THEN f.next ELSE f.prev,
              !.next = IF fge(stepped.val.time, f.states[f.next].time)
                       THEN f.next + 1 ELSE f.next]

fitness_iter_panic(stepped) == IF stepped.ok THEN NoPanic ELSE stepped.err

\* one iteration of the while loop
FitnessIter ==
    /\ panic = NoPanic
    /\ fit.active
    /\ fit.next <= Len(fit.states)
    /\ panic' = fitness_iter_panic(next(expr_self, fit.curr_state, fit.step))
    /\ fit' = IF panic' # NoPanic THEN fit
              ELSE fitness_iter(fit, next(expr_self, fit.curr_state, fit.step),
                                fitness_area(fit.curr_state, fit.states[fit.prev],
                                             fit.states[fit.next]))
    /\ last' = [NoLast EXCEPT !.op = "fitness_iter", !.self = expr_self]
    /\ UNCHANGED <<map, expr_self, expr_other, args_needed, pop_vars>>

\* the loop has ended: fitness returns the sum
FitnessReturn ==
    /\ panic = NoPanic
    /\ fit.active
    /\ fit.next > Len(fit.states)
    /\ fit' = NoFit
    /\ last' = [NoLast EXCEPT !.op = "fitness", !.self = expr_self,
                   !.times = [i \in 1..Len(fit.states) |-> fit.states[i].time],
                   !.positions = [i \in 1..Len(fit.states) |-> fit.states[i].position],
                   !.state = fit.curr_state,
                   !.value = fit.fitness]
    /\ UNCHANGED <<map, expr_self, expr_other, args_needed, pop_vars, panic>>

NextLoop == FitnessBegin \/ FitnessIter \/ FitnessReturn

SpecLoop == InitLoop /\ [][NextLoop]_vars

\* ===================================================== description and parse
\* a description is a sequence of characters
SEP_CHAR == " "
DecDigits == <<"0", "1", "2", "3", "4", "5", "6", "7", "8", "9">>
FracDigits == 3        \* decimals printed for a constant that is not whole

\* the decimal digits of a natural number
RECURSIVE nat_to_string(_)
nat_to_string(n) ==
    IF n < 10 THEN <<DecDigits[n + 1]>>
    ELSE Append(nat_to_string(n \div 10), DecDigits[(n % 10) + 1])

\* the decimals of the fraction r / Scale, at most n of them
RECURSIVE frac_to_string(_, _)
frac_to_string(r, n) ==
    IF r = 0 \/ n = 0 THEN <<>>
    ELSE <<DecDigits[((r * 10) \div Scale) + 1]>>
         \o frac_to_string((r * 10) % Scale, n - 1)

\* f64::to_string
f64_to_string(c) ==
    IF is_nan(c) THEN <<"N", "a", "N">>
    ELSE IF c = PosInf THEN <<"i", "n", "f">>
    ELSE IF c = NegInf THEN <<"-", "i", "n", "f">>
    ELSE (IF c < 0 THEN <<"-">> ELSE <<>>)
         \o nat_to_string(Abs(c) \div Scale)
         \o (IF Abs(c) % Scale = 0 THEN <<>>
             ELSE <<".">> \o frac_to_string(Abs(c) % Scale, FracDigits))

OperatorNotInMap == "Encountered operator not in map."

\* Expr::to_string: every token is followed by the separator
RECURSIVE to_string_loop(_, _, _, _)
to_string_loop(operators, m, i, description) ==
    IF i > Len(operators) THEN Ok(description)
    ELSE IF Len(get(m, operators[i])) = 1
    THEN to_string_loop(operators, m, i + 1,
                        Append(description \o get(m, operators[i])[1], SEP_CHAR))
    ELSE IF operators[i].kind = "Constant"
    THEN to_string_loop(operators, m, i + 1,
                        Append(description \o f64_to_string(operators[i].c), SEP_CHAR))
    ELSE Err(OperatorNotInMap)

to_string(operators, m) == to_string_loop(operators, m, 1, <<>>)

\* str::split: the pieces between separators, the empty ones included
RECURSIVE split_scan(_, _, _)
split_scan(description, i, name) ==
    IF i > Len(description) THEN <<name>>
    ELSE IF description[i] = SEP_CHAR
    THEN <<name>> \o split_scan(description, i + 1, <<>>)
    ELSE split_scan(description, i + 1, Append(name, description[i]))

split(description) == split_scan(description, 1, <<>>)

\* the position of a decimal digit, 0 for any other character
digit_of(ch) ==
    IF \E d \in 1..10 : DecDigits[d] = ch
    THEN CHOOSE d \in 1..10 : DecDigits[d] = ch
    ELSE 0

\* the value of the digits name[i..], scaled by weight (Scale for the whole
\* part, then a tenth of it per decimal), or -1 for a text that is no number
RECURSIVE parse_digits(_, _, _, _, _)
parse_digits(name, i, whole, weight, acc) ==
    IF i > Len(name) THEN acc
    ELSE IF name[i] = "." /\ whole /\ i > 1
    THEN parse_digits(name, i + 1, FALSE, Scale, acc * Scale)
    ELSE IF digit_of(name[i]) = 0 THEN 0 - 1
    ELSE IF whole
    THEN parse_digits(name, i + 1, TRUE, weight, acc * 10 + (digit_of(name[i]) - 1))
    ELSE parse_digits(name, i + 1, FALSE, weight \div 10,
                      acc + ((digit_of(name[i]) - 1) * (weight \div 10)))

\* str::parse::<f64> of a name that starts with a digit
parse_f64(name) ==
    IF parse_digits(name, 1, TRUE, Scale, 0) < 0 THEN Err("invalid float literal")
    ELSE IF \E i \in 1..Len(name) : name[i] = "."
    THEN Ok(Sat(parse_digits(name, 1, TRUE, Scale, 0)))
    ELSE Ok(Sat(parse_digits(name, 1, TRUE, Scale, 0) * Scale))

ConstantInvalid == "Constant is not a valid numeric value."
NameNotInMap == "name not in map"

\* the lookup of an operator by its name
get_name(m, name) == { o \in DOMAIN m : m[o] = name }

\* the symbols one name of a description can be parsed to, or the panic
from_name(m, name) ==
    IF name = TIME_TOKEN THEN {Ok(Time)}
    ELSE IF name = POS_TOKEN THEN {Ok(Position)}
    ELSE IF Len(name) > 0 /\ is_numeric(name[1])
    THEN (IF parse_f64(name).ok THEN {Ok(Constant(parse_f64(name).val))}
          ELSE {Err(ConstantInvalid)})
    ELSE IF get_name(m, name) = {} THEN {Err(NameNotInMap)}
    ELSE { Ok(o) : o \in get_name(m, name) }

\* ExprParser::from_description: the symbols of the names in order; the
\* first name that panics ends the parse
RECURSIVE from_description_loop(_, _, _, _)
from_description_loop(m, names, i, symbols) ==
    IF i > Len(names) THEN {[ok |-> TRUE, operators |-> symbols, err |-> NoPanic]}
    ELSE UNION { IF r.ok
                 THEN from_description_loop(m, names, i + 1, Append(symbols, r.val))
                 ELSE {[ok |-> FALSE, operators |-> <<>>, err |-> r.err]}
                 : r \in from_name(m, names[i]) }

from_description(m, description) ==
    from_description_loop(m, split(description), 1, <<>>)

\* expressions generate can return: those of the bounded loop, and a
\* constant below zero
DescExprs(m) == generate(m) \cup {<<Constant(fneg(F(2)))>>}

InitDesc ==
    /\ fit = NoFit
    /\ map \in ExprRegistries
    /\ expr_self \in DescExprs(map)
    /\ expr_other = <<>>
    /\ args_needed = 0
    /\ last = NoLast
    /\ InitPopulationNone
    /\ panic = NoPanic

\* to_string of the Expr held, keeping the description
Describe ==
    /\ panic = NoPanic
    /\ last.op # "to_string"
    /\ panic' = to_string(expr_self, map).err
    /\ last' = [NoLast EXCEPT !.op = "to_string", !.self = expr_self,
                   !.description = to_string(expr_self, map).val]
    /\ UNCHANGED <<fit, map, expr_self, expr_other, args_needed, pop_vars>>

\* from_description of the description kept, replacing the Expr held
FromDescription ==
    /\ panic = NoPanic
    /\ last.op = "to_string"
    /\ \E r \in from_description(map, last.description) :
          /\ panic' = r.err
          /\ expr_self' = IF r.ok THEN r.operators ELSE expr_self
          /\ last' = [last EXCEPT !.op = "from_description", !.parsed = r.operators]
    /\ UNCHANGED <<fit, map, expr_other, args_needed, pop_vars>>

NextDesc == Describe \/ FromDescription

SpecDesc == InitDesc /\ [][NextDesc]_vars

\* ============================================================== properties
\* the arity walk of the data model: a counter starting at 1, -1 per
\* terminal, 0 per unary, +1 per binary
WalkStep(operator) ==
    IF operator.kind \in {"Time", "Position", "Constant"} THEN 0 - 1
    ELSE IF operator.kind = "Unary" THEN 0
    ELSE 1

RECURSIVE Walk(_, _)
Walk(operators, n) ==
    IF n = 0 THEN 1 ELSE Walk(operators, n - 1) + WalkStep(operators[n])

\* the counter reaches 0 at the last token and at no earlier token
WellFormed(operators) ==
    /\ Len(operators) >= 1
    /\ Walk(operators, Len(operators)) = 0
    /\ \A n \in 1..(Len(operators) - 1) : Walk(operators, n) # 0

\* the recursive reading of prefix notation: the value of the subexpression
\* that starts at token i, and the index of the token after it
RECURSIVE PrefixRead(_, _, _)
PrefixRead(operators, i, state) ==
    LET operator == operators[i] IN
    CASE operator.kind = "Time" -> [val |-> state.time, nxt |-> i + 1]
      [] operator.kind = "Position" -> [val |-> state.position, nxt |-> i + 1]
      [] operator.kind = "Constant" -> [val |-> operator.c, nxt |-> i + 1]
      [] operator.kind = "Unary" ->
            LET a == PrefixRead(operators, i + 1, state)
            IN [val |-> apply_unary(operator.f, a.val), nxt |-> a.nxt]
      [] OTHER ->
            LET a == PrefixRead(operators, i + 1, state)
                b == PrefixRead(operators, a.nxt, state)
            IN [val |-> apply_binary(operator.f, a.val, b.val), nxt |-> b.nxt]

PrefixValue(operators, state) == PrefixRead(operators, 1, state).val

SpanLen(span) == span.end - span.start + 1

\* token i (from 1) of self with its span replaced by the span of other
SpliceAt(self, other, sub_self, sub_other, i) ==
    IF i <= sub_self.start THEN self[i]
    ELSE IF i <= sub_self.start + SpanLen(sub_other)
         THEN other[sub_other.start + (i - sub_self.start)]
         ELSE self[i - SpanLen(sub_other) + SpanLen(sub_self)]

\* C1: every Expr that generate, sub_expr, crossover and mutate produce obeys
\* the arity walk, and no eval of one ends in an evaluation error
C1_WellFormedClosure ==
    /\ args_needed = 0 => WellFormed(expr_self)
    /\ WellFormed(expr_other)
    /\ panic \notin EvaluationErrors
    /\ panic # SliceOutOfRange

C1_Witness ==
    /\ last.op = "eval"
    /\ Len(last.self) = 4
    /\ last.self[1].kind = "Binary"
    /\ last.self[3].kind = "Unary"
    /\ panic = NoPanic

\* C2: eval returns the value of the recursive prefix reading, the token
\* after a binary operator being its first argument; SUB TIME POS at time 5
\* and position 2 is 3
C2_BinaryOperandOrder ==
    /\ last.op = "eval" => last.value = PrefixValue(last.self, last.state)
    /\ eval(<<Binary("SUB"), Time, Position>>, State(F(5), F(2))) = Ok(F(3))

C2_Witness ==
    /\ last.op = "eval"
    /\ last.self = <<Binary("SUB"), Time, Position>>
    /\ last.state = State(F(5), F(2))
    /\ last.value = F(3)

\* the span sub_expr returns for start is inside the sequence, well formed,
\* and no shorter span from start is well formed
SpanIsMinimalWellFormed(operators, span, start) ==
    /\ span.start = start
    /\ span.end >= start
    /\ span.end <= Len(operators) - 1
    /\ SpanLen(span) <= Len(operators) - start
    /\ WellFormed(slice_incl(operators, start, span.end))
    /\ \A e \in start..(span.end - 1) : ~WellFormed(slice_incl(operators, start, e))

\* C3: from every start below len the forward scan returns the minimal
\* well-formed span beginning at start, which ends inside the sequence
C3_SpanDiscovery ==
    /\ args_needed = 0 =>
          \A start \in sub_expr_starts(expr_self) :
              SpanIsMinimalWellFormed(expr_self, sub_expr(expr_self, start), start)
    /\ last.op = "sub_expr" =>
          /\ SpanIsMinimalWellFormed(last.self, last.sub_self, last.sub_self.start)
          /\ expr_other = slice_incl(last.self, last.sub_self.start, last.sub_self.end)

C3_Witness ==
    /\ last.op = "sub_expr"
    /\ last.self = <<Binary("ADD"), Unary("SQUARE"), Time, Position>>
    /\ last.sub_self = [start |-> 1, end |-> 2]
    /\ sub_expr(last.self, 3) = [start |-> 3, end |-> 3]

\* C4: crossover returns self[0..a) ++ other[c..=d] ++ self[b+1..] for the
\* chosen spans [a, b] of self and [c, d] of other
C4_CrossoverComposition ==
    last.op = "crossover" =>
        /\ Len(expr_self) = Len(last.self) - SpanLen(last.sub_self) + SpanLen(last.sub_other)
        /\ \A i \in 1..Len(expr_self) :
              expr_self[i] = SpliceAt(last.self, last.other, last.sub_self, last.sub_other, i)

C4_Witness ==
    /\ last.op = "crossover"
    /\ last.self = <<Binary("ADD"), Time, Position>>
    /\ last.other = <<Unary("SQUARE"), Time>>
    /\ last.sub_self = [start |-> 2, end |-> 2]
    /\ last.sub_other = [start |-> 0, end |-> 1]
    /\ expr_self = <<Binary("ADD"), Time, Unary("SQUARE"), Time>>
    /\ eval(expr_self, State(F(3), F(0))) = Ok(F(12))

\* C5: the result of a crossover of a self of length L, with a self-span of
\* length s and an other-span of length o, has length L - s + o; it is never
\* empty, and a mutate (o = 1) never lengthens self
C5_LengthAlgebra ==
    last.op \in {"crossover", "mutate"} =>
        /\ Len(expr_self) = Len(last.self) - SpanLen(last.sub_self) + SpanLen(last.sub_other)
        /\ Len(expr_self) >= 1
        /\ last.op = "mutate" =>
              /\ SpanLen(last.sub_other) = 1
              /\ Len(expr_self) <= Len(last.self)

C5_Witness ==
    /\ last.op = "mutate"
    /\ Len(last.self) = 4
    /\ SpanLen(last.sub_self) = 3
    /\ Len(expr_self) = 2

\* a is a strictly better (lower) fitness than b, NaN being the worst
Better(a, b) ==
    \/ ~is_nan(a.fitness) /\ is_nan(b.fitness)
    \/ ~is_nan(a.fitness) /\ ~is_nan(b.fitness) /\ a.fitness < b.fitness

Count(v, P(_)) == Cardinality({k \in 1..Len(v) : P(v[k])})

\* the first n of new are n Individuals of old with the lowest fitness, in
\* ascending order, each as it was in old
LowestKept(old, new, n) ==
    /\ Len(new) >= n
    /\ \A i \in 1..n :
          /\ LET StrictlyBetter(x) == Better(x, new[i])
             IN Count(old, StrictlyBetter) <= i - 1
          /\ LET Same(x) == x = new[i]
             IN Count(old, Same) >= Count(SubSeq(new, 1, n), Same)
    /\ \A i \in 1..n, j \in 1..n : i < j => ~Better(new[j], new[i])

\* C6: after evolve the first floor(n/10) Individuals are the floor(n/10)
\* Individuals of lowest fitness before it, ascending, with the same Expr and
\* the same fitness
C6_ElitismInvariance ==
    [][generation' = generation + 1 =>
          /\ Len(population') = Len(population)
          /\ LowestKept(population, population', Len(population) \div 10)]_vars

C6_Witness ==
    /\ generation = 1
    /\ Len(population) >= 10
    /\ population[1].expr = <<Time>>
    /\ population[2].expr = <<Position>>
    /\ Better(population[1], population[2])

\* the comparator on the Individuals of v: a total order by fitness with NaN
\* last and equal to itself
ComparatorTotal(v) ==
    \A i \in 1..Len(v), j \in 1..Len(v), k \in 1..Len(v) :
        LET a == v[i]
            b == v[j]
            c == v[k]
        IN /\ cmp(a, a) = "Equal"
           /\ cmp(a, b) \in {"Less", "Equal", "Greater"}
           /\ cmp(a, b) = "Less" <=> cmp(b, a) = "Greater"
           /\ cmp(a, b) = "Equal" <=>
                 \/ is_nan(a.fitness) /\ is_nan(b.fitness)
                 \/ ~is_nan(a.fitness) /\ ~is_nan(b.fitness) /\ a.fitness = b.fitness
           /\ cmp(a, b) # "Greater" /\ cmp(b, c) # "Greater" => cmp(a, c) # "Greater"
           /\ is_nan(a.fitness) /\ ~is_nan(b.fitness) => cmp(a, b) = "Greater"
           /\ cmp(a, b) = "Less" <=> Better(a, b)

IsNaNIndividual(x) == is_nan(x.fitness)

\* v is ascending with every NaN fitness after every other fitness
AscendingNaNLast(v) ==
    \A i \in 1..Len(v), j \in 1..Len(v) :
        i < j => /\ ~Better(v[j], v[i])
                 /\ is_nan(v[i].fitness) => is_nan(v[j].fitness)

TokenRules(token) ==
    /\ Len(token) > 0
    /\ \A i \in 1..Len(token) : token[i] \in Letters \cup Digits
    /\ token[1] \notin Digits
    /\ token \notin {TIME_TOKEN, POS_TOKEN}

\* C8: insert fails and leaves the registry unchanged for a token that is
\* empty, not alphanumeric, starts with a digit or is reserved, and records
\* the mapping for every other token
C8_InsertValidation ==
    [][last'.op = "insert" =>
          IF TokenRules(last'.token)
          THEN /\ panic' = NoPanic
               /\ last'.operator \in DOMAIN map'
               /\ map'[last'.operator] = last'.token
               /\ \A o \in DOMAIN map \ {last'.operator} :
                     o \in DOMAIN map' /\ map'[o] = map[o]
          ELSE /\ panic' # NoPanic
               /\ map' = map]_vars

\* C9: evolve on an empty population fails before it changes anything
C9_EvolveEmpty ==
    [][last'.op = "evolve" /\ Len(population) = 0 =>
          /\ panic' = EvolveEmpty
          /\ population' = <<>>
          /\ generation' = generation]_vars

C9_Witness ==
    /\ panic = EvolveEmpty
    /\ last.op = "evolve"
    /\ constructed
    /\ population = <<>>
    /\ generation = 0

BadData(ts, ps) == Len(ts) # Len(ps) \/ Len(ts) = 0

SameTokens(m, a, b) ==
    /\ Len(b) = Len(a)
    /\ \A i \in 1..Len(a) :
          IF a[i].kind = "Constant" /\ a[i] \notin DOMAIN m
          THEN b[i].kind = "Constant"
          ELSE b[i] = a[i]

\* C11: the description of a generated Expr parses back to the same token
\* sequence, with a constant wherever an anonymous constant stood
C11_DescriptionRoundTrip ==
    last.op = "from_description" =>
        /\ panic = NoPanic
        /\ SameTokens(map, last.self, last.parsed)

\* C12 as claimed: the fitness of a well-formed Expr over a valid dataset is
\* at least 0, every term is at least 0 and the running sum never decreases
C12_FitnessNonNegative ==
    [][/\ last'.op = "fitness" /\ Len(last'.times) >= 2 => fge(last'.value, 0)
       /\ last'.op = "fitness_iter" /\ panic' = NoPanic =>
             /\ fge(fit'.area, 0)
             /\ fge(fit'.fitness, fit.fitness)]_vars

NaNOrAtLeast(a, b) == is_nan(a) \/ (~is_nan(b) /\ a >= b)

\* C12 as amended: the fitness is never below 0: it is NaN or at least 0;
\* every term is NaN or at least 0; the running sum never decreases and
\* stays NaN once it is NaN
C12_FitnessNeverNegative ==
    [][/\ last'.op = "fitness" /\ Len(last'.times) >= 2 =>
             NaNOrAtLeast(last'.value, 0)
       /\ last'.op = "fitness_iter" /\ panic' = NoPanic =>
             /\ NaNOrAtLeast(fit'.area, 0)
             /\ NaNOrAtLeast(fit'.fitness, fit.fitness)]_vars

C12_Witness ==
    /\ last.op = "fitness"
    /\ last.self = <<Binary("DIV"), Time, Time>>
    /\ Len(last.times) = 2
    /\ is_nan(last.value)

\* the Exprs crossover can return for two parents
Crossed(parent1, parent2) ==
    { crossover(parent1, parent2, s1, s2).operators :
        s1 \in sub_expr_starts(parent1), s2 \in sub_expr_starts(parent2) }

\* the Exprs a mutation of a crossover of two Exprs of v can be
MutatedCrossovers(v) ==
    UNION { { mutate(c, rand, s).operators :
                rand \in BOOLEAN, s \in sub_expr_starts(c) } :
            c \in UNION { Crossed(v[i].expr, v[j].expr) :
                          i \in 1..Len(v), j \in 1..Len(v) } }

\* C13: every Individual evolve adds beyond the unchanged ones holds a
\* mutation of a crossover of two Individuals of the old population, and
\* the fitness computed for that Expr
C13_OffspringConstruction ==
    [][generation' = generation + 1 =>
          \A i \in (num_unchanged(Len(population)) + 1)..Len(population') :
             /\ population'[i].expr \in MutatedCrossovers(population)
             /\ population'[i].fitness
                   = diff_eq_fitness(population'[i].expr, times, positions,
                                     TIME_STEP).val]_vars

\* the position of the first Individual of v whose fitness is at least num
FirstAtLeast(v, num) ==
    CHOOSE i \in 1..Len(v) :
       /\ fge(v[i].fitness, num)
       /\ \A j \in 1..(i - 1) : ~fge(v[j].fitness, num)

\* C14: when some Individual of the sorted population has a fitness of at
\* least the sampled value, closest returns the first such Individual
C14_ParentSelection ==
    last.op = "closest"
    /\ (\E i \in 1..Len(population) : fge(population[i].fitness, last.num))
    => last.individual = population[FirstAtLeast(population, last.num)]

\* no neighbours of v have the value between their fitnesses
NoneSelected(v, num) ==
    ~\E k \in 1..(Len(v) - 1) :
        fle(v[k].fitness, num) /\ fge(v[k + 1].fitness, num)

\* C15: when the sampled value selects no Individual, closest returns the
\* first Individual of the sorted population, and never one with a NaN
\* fitness while one with a finite fitness exists
C15_SelectionFallback ==
    last.op = "closest" =>
       /\ NoneSelected(population, last.num) => last.individual = population[1]
       /\ (\E i \in 1..Len(population) : IsFinite(population[i].fitness))
             => ~is_nan(last.individual.fitness)

\* C16: a value evolve passes to closest is min_fitness, the fitness of the
\* first Individual of the sorted population, plus a draw that is not
\* negative: it is never below min_fitness
C16_SelectionAnchoring ==
    last.op = "closest" /\ IsFinite(last.value) => fge(last.num, last.value)

IsPrefix(a, b) == Len(a) <= Len(b) /\ SubSeq(b, 1, Len(a)) = a

\* C17: a new Population is empty at generation 0; grow(n) appends n
\* Individuals and leaves the others and the generation alone; evolve keeps
\* the size and adds 1 to the generation; best_fit changes neither
C17_GenerationalReplacement ==
    [][/\ last'.op = "new" /\ constructed' =>
             Len(population') = 0 /\ generation' = 0
       /\ last'.op = "grow" /\ panic' = NoPanic =>
             /\ last'.num >= 1
             /\ Len(population') = Len(population) + last'.num
             /\ IsPrefix(population, population')
             /\ generation' = generation
       /\ last'.op = "evolve" /\ panic' = NoPanic =>
             /\ Len(population') = Len(population)
             /\ generation' = generation + 1
       /\ last'.op = "best_fit" =>
             /\ Len(population') = Len(population)
             /\ generation' = generation]_vars

C17_Witness ==
    /\ last.op = "grow"
    /\ last.num = 1
    /\ Len(population) = 3
    /\ generation = 1
    /\ panic = NoPanic

\* C18: eval returns a value for a token sequence exactly when the sequence
\* keeps the arity walk, and ends in one of its fatal errors otherwise
C18_BackstopExact ==
    [][last'.op = "eval" \/ panic' # NoPanic =>
          /\ panic' = NoPanic <=> WellFormed(expr_self)
          /\ panic' # NoPanic => panic' \in EvaluationErrors \cup {UnwrapNone}]_vars

C18_Witness ==
    /\ expr_self = <<Time, Binary("SUB"), Position, Position>>
    /\ panic = MalformedMany

\* C19: no two registered operators share a token, so the lookup by name of
\* the token of a registered operator gives that operator back; Time and
\* Position are always registered, so rand_operator has a key to return
C19_RegistryConsistency ==
    /\ \A o1 \in DOMAIN map, o2 \in DOMAIN map : map[o1] = map[o2] => o1 = o2
    /\ \A o \in DOMAIN map : get_name(map, map[o]) = {o}
    /\ {Time, Position} \subseteq DOMAIN map
    /\ rand_operator(map) # {}

\* C20: every iteration of the fitness loop advances the simulated time by
\* exactly the step and moves the bounds on by at most one state, never
\* back; fitness returns exactly when the bounds have passed the last
\* state; for a single state it returns 0 without an integration step
C20_FitnessLoopTermination ==
    [][/\ last'.op = "fitness_iter" /\ panic' = NoPanic =>
             /\ fit'.curr_state.time = fit.curr_state.time + fit.step
             /\ fit'.next \in {fit.next, fit.next + 1}
             /\ fit'.prev = IF fit'.next = fit.next THEN fit.prev ELSE fit.next
       /\ last'.op = "fitness" => fit.next = Len(fit.states) + 1
       /\ last'.op = "fitness" /\ Len(fit.states) = 1 =>
             /\ last'.value = 0
             /\ last'.state = fit.states[1]]_vars

====
